---- MODULE Spec2Model ----
(***************************************************************************)
(* Model of gitlab_grabber.py: the dependency harvest over GitLab GraphQL. *)
(*                                                                         *)
(*   fetch_all_paths_graphql          paginated listing of the file tree   *)
(*   filter_paths_by_dependency_patterns   fnmatch filter over the registry*)
(*   fetch_raw_texts_graphql          content retrieval for one batch      *)
(*   parse_files_for_dependencies     parser dispatch per file and pattern *)
(*   parse_dependencies_full_graphql  the pipeline combining the four      *)
(*                                                                         *)
(* Strings are sequences of one-character strings, so that fnmatch is      *)
(* computed character by character.  An optional value (Python None) is a  *)
(* sequence of length 0 or 1: None == <<>>, Some(x) == <<x>>.              *)
(***************************************************************************)
EXTENDS Integers, Sequences, FiniteSets, TLC

VARIABLES
  tree,                        \* backend: the repository, a sequence of blob nodes
  pc,                          \* position of parse_dependencies_full_graphql
  all_file_paths,              \* fetch_all_paths_graphql: accumulated paths
  after_cursor,                \* fetch_all_paths_graphql: cursor of the next request
  candidate_paths,             \* result of filter_paths_by_dependency_patterns
  num_batches,                 \* ceil(len(candidate_paths) / BATCH_SIZE)
  start_index,                 \* slice start of the next batch (0-based)
  batch_i,                     \* loop index of the batch loop
  user_language_dependencies,  \* the accumulator of the pipeline
  returned,                    \* the value returned to the caller, None until then
  raised,                      \* which request raised: "none", "listing", "fetch"
  listRequests,                \* log: the cursor sent with every listing request
  listResponses,               \* log: every listing response received
  fetchCalls,                  \* log: paths_batch of every content-fetch call
  fetchResults,                \* log: the dict every successful content fetch returned
  parserCalls                  \* log: every parser invocation, with its outcome

vars == <<tree, pc, all_file_paths, after_cursor, candidate_paths, num_batches,
          start_index, batch_i, user_language_dependencies, returned, raised,
          listRequests, listResponses, fetchCalls, fetchResults, parserCalls>>

----------------------------------------------------------------------------
(* Optional values and strings *)

None == <<>>
Some(x) == <<x>>

\* Python truthiness of an optional string: None and "" are falsy
Truthy(opt) == opt # None /\ opt[1] # <<>>

Range(s) == {s[i] : i \in 1..Len(s)}

RECURSIVE Concat(_)
Concat(ss) == IF ss = <<>> THEN <<>> ELSE Head(ss) \o Concat(Tail(ss))

----------------------------------------------------------------------------
(* Program constants *)

\* blobs(first: 100, after: $after) in LIST_PATHS_QUERY
PAGE_SIZE == 100

\* BATCH_SIZE = 100 in parse_dependencies_full_graphql
BATCH_SIZE == 100

(* Bounds of the model *)

\* the largest repository the backend holds
MaxTree == 201

\* the backend answers the MaxPages-th listing request of a run with a last page
MaxPages == 3

----------------------------------------------------------------------------
(* fnmatch.fnmatch(name, pat) on POSIX: the pattern must match the whole name; *)
(* "*" matches any run of characters ("/" included), "?" any one character.    *)
(* Character classes "[...]" are left out: no pattern of the registry below    *)
(* uses one.                                                                   *)

\* name[i..] is matched by pat[j..]
RECURSIVE Match(_, _, _, _)
Match(name, i, pat, j) ==
  IF j > Len(pat) THEN i > Len(name)
  ELSE IF pat[j] = "*"
    THEN \E k \in i..(Len(name) + 1) : Match(name, k, pat, j + 1)
  ELSE /\ i <= Len(name)
       /\ pat[j] = "?" \/ pat[j] = name[i]
       /\ Match(name, i + 1, pat, j + 1)

fnmatch(name, pat) == Match(name, 1, pat, 1)

----------------------------------------------------------------------------
(* The pattern registry imported from dependency_parser_lib: language ->      *)
(* {glob pattern: parser}, in dict order.  It is an external collaborator; a  *)
(* small registry stands in for it, with a literal pattern, "*" and "?"       *)
(* patterns, one path matched by two patterns of a language and one matched   *)
(* under two languages.                                                       *)

PatReqs == <<"*", "r", "e", "q", "s", ".", "t", "x", "t">>
PatTxt  == <<"*", ".", "t", "x", "t">>
PatGoMod == <<"g", "o", ".", "m", "o", "d">>
PatLock == <<"*", ".", "l", "o", "c", "k">>
PatLoc  == <<"*", ".", "l", "o", "c", "?">>

LANGUAGE_DEPENDENCY_FILES ==
  << [lang |-> "python",
      patterns |-> << [pattern |-> PatReqs, parser |-> "parse_reqs"],
                      [pattern |-> PatTxt, parser |-> "parse_reqs"] >>],
     [lang |-> "go",
      patterns |-> << [pattern |-> PatGoMod, parser |-> "parse_gomod"] >>],
     [lang |-> "javascript",
      patterns |-> << [pattern |-> PatLock, parser |-> "parse_lock_js"] >>],
     [lang |-> "ruby",
      patterns |-> << [pattern |-> PatLoc, parser |-> "parse_lock_rb"] >>] >>

Languages == {LANGUAGE_DEPENDENCY_FILES[i].lang : i \in 1..Len(LANGUAGE_DEPENDENCY_FILES)}

\* the names the javascript and the ruby parser recognise in a lock file
JsNames == {"left-pad", "lodash", "lib0", "lib1"}
RbNames == {"rake", "rails", "lib1", "lib2"}

\* parser_fn(text): the parser's answer on a text (a sequence of lines), either
\* a collection of names or an exception
parser_fn(parser, text) ==
  CASE parser = "parse_reqs" ->
         IF "<<<<<<<" \in Range(text)
           THEN [raised |-> TRUE, deps |-> {}]
           ELSE [raised |-> FALSE, deps |-> Range(text)]
    [] parser = "parse_gomod" ->
         IF Head(text) # "module x"
           THEN [raised |-> TRUE, deps |-> {}]
           ELSE [raised |-> FALSE, deps |-> Range(Tail(text))]
    [] parser = "parse_lock_js" ->
         [raised |-> FALSE, deps |-> Range(text) \cap JsNames]
    [] parser = "parse_lock_rb" ->
         IF "!binary" \in Range(text)
           THEN [raised |-> TRUE, deps |-> {}]
           ELSE [raised |-> FALSE, deps |-> Range(text) \cap RbNames]

----------------------------------------------------------------------------
(* The backend: the repository behind the GraphQL endpoint *)

NameReqs   == <<"r", "e", "q", "s", ".", "t", "x", "t">>
NameNotes  == <<"n", ".", "t", "x", "t">>
NameGoMod  == <<"g", "o", ".", "m", "o", "d">>
NameLock   == <<"a", ".", "l", "o", "c", "k">>
NameReadme == <<"R", "E", "A", "D", "M", "E">>

\* kinds of blob: a name, a raw text (None: binary or too large) and whether
\* the listing node carries a path at all
ReqsOk     == [name |-> NameReqs, text |-> Some(<<"flask", "requests">>), hasPath |-> TRUE]
ReqsBad    == [name |-> NameReqs, text |-> Some(<<"flask", "<<<<<<<">>), hasPath |-> TRUE]
ReqsEmpty  == [name |-> NameReqs, text |-> Some(<<>>), hasPath |-> TRUE]
Notes      == [name |-> NameNotes, text |-> Some(<<"django">>), hasPath |-> TRUE]
GoModOk    == [name |-> NameGoMod, text |-> Some(<<"module x", "example.com/a/b">>), hasPath |-> TRUE]
LockBin    == [name |-> NameLock, text |-> None, hasPath |-> TRUE]
LockOk     == [name |-> NameLock, text |-> Some(<<"left-pad", "rake">>), hasPath |-> TRUE]
LockRbBad  == [name |-> NameLock, text |-> Some(<<"lodash", "!binary">>), hasPath |-> TRUE]
LockNoDeps == [name |-> NameLock, text |-> Some(<<"# empty">>), hasPath |-> TRUE]
Readme     == [name |-> NameReadme, text |-> Some(<<"hello">>), hasPath |-> TRUE]
NoPathNode == [name |-> NameReadme, text |-> None, hasPath |-> FALSE]

\* repository layouts: the kinds repeat in this order along the tree
Layouts ==
  { <<ReqsOk, LockOk>>,
    <<GoModOk, ReqsOk, ReqsBad, LockOk, Notes>>,
    <<Readme, GoModOk, ReqsOk, LockBin, NoPathNode, ReqsEmpty, LockRbBad, LockNoDeps>>,
    <<Readme>> }

TreeSizes == {0, 1, PAGE_SIZE, PAGE_SIZE + 1, MaxTree}

Digit == <<"0", "1", "2", "3", "4", "5", "6", "7", "8", "9">>
DirName(i) ==
  <<Digit[((i \div 100) % 10) + 1], Digit[((i \div 10) % 10) + 1], Digit[(i % 10) + 1], "/">>

LibNames == <<"lib0", "lib1", "lib2", "lib3">>

\* blob i of a repository laid out by `layout`: the first blob lies in the root
\* directory, every later blob in a directory of its own
BlobAt(layout, i) ==
  LET kind == layout[((i - 1) % Len(layout)) + 1]
      path == IF i = 1 THEN kind.name ELSE DirName(i) \o kind.name
  IN [path |-> IF kind.hasPath THEN Some(path) ELSE None,
      rawTextBlob |-> IF kind.text = None \/ kind.text = Some(<<>>)
                        THEN kind.text
                        ELSE Some(kind.text[1] \o <<LibNames[((i \div PAGE_SIZE) % 4) + 1]>>)]

Tree(n, layout) == [i \in 1..n |-> BlobAt(layout, i)]

Min(a, b) == IF a <= b THEN a ELSE b

\* the answers the backend may give to a listing request carrying `after`, the
\* reqNo-th of the run: a failure status, a success whose "project" is null (an
\* unknown or inaccessible project), a success without tree data, or the page
\* of at most PAGE_SIZE nodes behind the cursor, with a continuation flag and
\* an end cursor (the flag may be wrong and the cursor missing)
ListingResponses(after, reqNo) ==
  LET start == IF after = None THEN 0 ELSE after[1]
      stop == Min(start + PAGE_SIZE, Len(tree))
      page == [i \in 1..(stop - start) |-> [path |-> tree[start + i].path]]
  IN {[status |-> 500, projectNull |-> FALSE, hasTree |-> FALSE, nodes |-> <<>>,
       hasNextPage |-> FALSE, endCursor |-> None],
      [status |-> 200, projectNull |-> TRUE, hasTree |-> FALSE, nodes |-> <<>>,
       hasNextPage |-> FALSE, endCursor |-> None],
      [status |-> 200, projectNull |-> FALSE, hasTree |-> FALSE, nodes |-> <<>>,
       hasNextPage |-> FALSE, endCursor |-> None]}
     \cup
     {[status |-> 200, projectNull |-> FALSE, hasTree |-> TRUE, nodes |-> page,
       hasNextPage |-> h, endCursor |-> c] :
        h \in IF reqNo < MaxPages THEN BOOLEAN ELSE {FALSE},
        c \in {None, Some(stop)}}

\* the blobs tree[lo..hi] by path: path -> rawTextBlob
RECURSIVE BlobStore(_, _)
BlobStore(lo, hi) ==
  IF lo > hi THEN <<>>
  ELSE IF lo = hi
    THEN IF tree[lo].path = None THEN <<>>
         ELSE tree[lo].path[1] :> tree[lo].rawTextBlob
  ELSE LET mid == (lo + hi) \div 2
       IN BlobStore(lo, mid) @@ BlobStore(mid + 1, hi)

\* blobs(paths: $paths).nodes: one node per requested path the repository resolves
BlobNodes(paths) ==
  LET store == BlobStore(1, Len(tree))
      resolved == SelectSeq(paths, LAMBDA p : p \in DOMAIN store)
  IN [i \in 1..Len(resolved) |-> [path |-> Some(resolved[i]),
                                   rawTextBlob |-> store[resolved[i]]]]

\* the answers the backend may give to a content request: a failure status, a
\* success whose "project" is null, or the blobs of the requested paths
ContentResponses(paths_batch) ==
  {[status |-> 500, projectNull |-> FALSE, nodes |-> <<>>],
   [status |-> 200, projectNull |-> TRUE, nodes |-> <<>>],
   [status |-> 200, projectNull |-> FALSE, nodes |-> BlobNodes(paths_batch)]}

----------------------------------------------------------------------------
(* fetch_all_paths_graphql *)

\* mutant: every page replaces the list instead of extending it
AppendPathsOverwrite(paths, nodes) ==
  LET withPath == SelectSeq(nodes, LAMBDA blob : Truthy(blob.path))
  IN [i \in 1..Len(withPath) |-> withPath[i].path[1]]

\* for blob in nodes: path = blob.get("path"); if path: all_file_paths.append(path)
AppendPaths(paths, nodes) ==
  LET withPath == SelectSeq(nodes, LAMBDA blob : Truthy(blob.path))
  IN paths \o [i \in 1..Len(withPath) |-> withPath[i].path[1]]

\* mutant: the cursor is never advanced
StaleCursor(cursor, resp) == cursor

\* if has_next: after_cursor = end_cursor
NextCursor(cursor, resp) == resp.endCursor

\* mutant: a failed page ends the listing like a page without tree data
ListingFailedBreak ==
  /\ pc' = "filter"
  /\ UNCHANGED <<all_file_paths, after_cursor, raised>>

\* if resp.status_code != 200: raise Exception(...), and the AttributeError of
\* data.get("data", {}).get("project", {}).get(...) when "project" is null.
\* Nothing catches either: the listing and the pipeline that called it end
\* without a value.
ListingFailed ==
  /\ pc' = "error"
  /\ raised' = "listing"
  /\ UNCHANGED <<all_file_paths, after_cursor>>

\* one iteration of the while loop: a request with after_cursor and the
\* handling of its response; an exception leaves the whole pipeline
ListPage ==
  /\ pc = "listing"
  /\ \E resp \in ListingResponses(after_cursor, Len(listRequests) + 1) :
       /\ listRequests' = Append(listRequests, after_cursor)
       /\ listResponses' = Append(listResponses, resp)
       /\ IF resp.status # 200 \/ resp.projectNull
            THEN ListingFailed
          ELSE IF ~resp.hasTree
            THEN /\ pc' = "filter"
                 /\ UNCHANGED <<all_file_paths, after_cursor, raised>>
          ELSE /\ all_file_paths' = AppendPaths(all_file_paths, resp.nodes)
               /\ IF resp.hasNextPage
                    THEN /\ after_cursor' = NextCursor(after_cursor, resp)
                         /\ pc' = "listing"
                    ELSE /\ after_cursor' = after_cursor
                         /\ pc' = "filter"
               /\ UNCHANGED raised
  /\ UNCHANGED <<tree, candidate_paths, num_batches, start_index, batch_i,
                 user_language_dependencies, returned, fetchCalls, fetchResults,
                 parserCalls>>

----------------------------------------------------------------------------
(* filter_paths_by_dependency_patterns *)

\* all_patterns: the pattern keys of every language, in registry order
RECURSIVE AllPatterns(_)
AllPatterns(registry) ==
  IF registry = <<>> THEN <<>>
  ELSE [i \in 1..Len(Head(registry).patterns) |-> Head(registry).patterns[i].pattern]
       \o AllPatterns(Tail(registry))

\* mutant: the path is kept whether or not a pattern matches
KeepAlways(matching, file_path, pats) == Append(matching, file_path)

\* mutant: no break, the path is appended once per matching pattern
RECURSIVE KeepEveryMatch(_, _, _)
KeepEveryMatch(matching, file_path, pats) ==
  IF pats = <<>> THEN matching
  ELSE KeepEveryMatch(IF fnmatch(file_path, Head(pats))
                        THEN Append(matching, file_path)
                        ELSE matching,
                      file_path, Tail(pats))

\* the inner loop: append file_path at the first matching pattern and break
RECURSIVE KeepIfMatch(_, _, _)
KeepIfMatch(matching, file_path, pats) ==
  IF pats = <<>> THEN matching
  ELSE IF fnmatch(file_path, Head(pats)) THEN Append(matching, file_path)
  ELSE KeepIfMatch(matching, file_path, Tail(pats))

\* the outer loop over all_paths[lo..hi]: what the inner loop appends for each
\* path, in order (the paths are independent of each other, so the range is
\* evaluated by halves)
RECURSIVE FilterLoop(_, _, _, _)
FilterLoop(all_paths, lo, hi, pats) ==
  IF lo > hi THEN <<>>
  ELSE IF lo = hi THEN KeepIfMatch(<<>>, all_paths[lo], pats)
  ELSE LET mid == (lo + hi) \div 2
       IN FilterLoop(all_paths, lo, mid, pats) \o FilterLoop(all_paths, mid + 1, hi, pats)

filter_paths_by_dependency_patterns(all_paths) ==
  FilterLoop(all_paths, 1, Len(all_paths), AllPatterns(LANGUAGE_DEPENDENCY_FILES))

----------------------------------------------------------------------------
(* Python dicts: the pipeline's {language: set} as a function on the languages  *)
(* present, the {path: text} of one fetch as a sequence of items in insertion   *)
(* order with distinct keys                                                     *)

EmptyDict == <<>>

\* d[lang] = set() unless present, then d[lang].update(deps)
DictUpdate(d, lang, deps) ==
  IF lang \in DOMAIN d
    THEN [d EXCEPT ![lang] = @ \cup deps]
    ELSE d @@ (lang :> deps)

----------------------------------------------------------------------------
(* fetch_raw_texts_graphql: the dict built from a successful response *)

\* for blob in blobs: result[p] = raw_text.  A key keeps the place of its first
\* assignment and the value of its last.
\* path -> the first (the last) index in blobs[lo..hi] of a blob with that path
RECURSIVE FirstIndex(_, _, _)
FirstIndex(blobs, lo, hi) ==
  IF lo > hi THEN <<>>
  ELSE IF lo = hi THEN blobs[lo].path :> lo
  ELSE LET mid == (lo + hi) \div 2
       IN FirstIndex(blobs, lo, mid) @@ FirstIndex(blobs, mid + 1, hi)

RECURSIVE LastIndex(_, _, _)
LastIndex(blobs, lo, hi) ==
  IF lo > hi THEN <<>>
  ELSE IF lo = hi THEN blobs[lo].path :> lo
  ELSE LET mid == (lo + hi) \div 2
       IN LastIndex(blobs, mid + 1, hi) @@ LastIndex(blobs, lo, mid)

BlobsToDict(blobs) ==
  LET first == FirstIndex(blobs, 1, Len(blobs))
      last == LastIndex(blobs, 1, Len(blobs))
      index == [i \in 1..Len(blobs) |-> i]
      keys == SelectSeq(index, LAMBDA i : first[blobs[i].path] = i)
  IN [n \in 1..Len(keys) |->
        [path |-> blobs[keys[n]].path[1],
         text |-> blobs[last[blobs[keys[n]].path]].rawTextBlob]]

----------------------------------------------------------------------------
(* parse_files_for_dependencies: the state of its loops is the dict built so far *)
(* and, for the record, every parser invocation made                             *)

\* mutant: a parser exception discards what was collected before it
ParseOneAbort(acc, path, text, lang, pat) ==
  LET out == parser_fn(pat.parser, text)
  IN [deps |-> IF out.raised THEN EmptyDict
               ELSE IF out.deps # {} THEN DictUpdate(acc.deps, lang, out.deps)
               ELSE acc.deps,
      calls |-> acc.calls \cup {[file |-> path, lang |-> lang, pattern |-> pat.pattern,
                                 raised |-> out.raised, returned |-> out.deps]}]

\* try: deps = parser_fn(text); if deps: ...update(deps)  except: log
ParseOne(acc, path, text, lang, pat) ==
  LET out == parser_fn(pat.parser, text)
  IN [deps |-> IF ~out.raised /\ out.deps # {}
                 THEN DictUpdate(acc.deps, lang, out.deps)
                 ELSE acc.deps,
      calls |-> acc.calls \cup {[file |-> path, lang |-> lang, pattern |-> pat.pattern,
                                 raised |-> out.raised, returned |-> out.deps]}]

\* for pattern, parser_fn in patterns_dict.items(): if fnmatch(path, pattern): ...
RECURSIVE ParsePatterns(_, _, _, _, _)
ParsePatterns(acc, path, text, lang, pats) ==
  IF pats = <<>> THEN acc
  ELSE ParsePatterns(IF fnmatch(path, Head(pats).pattern)
                       THEN ParseOne(acc, path, text, lang, Head(pats))
                       ELSE acc,
                     path, text, lang, Tail(pats))

\* mutant: the search stops at the first language with a matching pattern
RECURSIVE ParseFirstLanguage(_, _, _, _)
ParseFirstLanguage(acc, path, text, registry) ==
  IF registry = <<>> THEN acc
  ELSE LET next == ParsePatterns(acc, path, text, Head(registry).lang,
                                 Head(registry).patterns)
       IN IF next.calls # acc.calls THEN next
          ELSE ParseFirstLanguage(acc, path, text, Tail(registry))

\* for lang, patterns_dict in LANGUAGE_DEPENDENCY_FILES.items(): ...
RECURSIVE ParseLanguages(_, _, _, _)
ParseLanguages(acc, path, text, registry) ==
  IF registry = <<>> THEN acc
  ELSE ParseLanguages(ParsePatterns(acc, path, text, Head(registry).lang,
                                    Head(registry).patterns),
                      path, text, Tail(registry))

\* the body of the loop over file_contents.items() for one item
\*   if not text: continue
ParseFile(acc, item) ==
  IF ~Truthy(item.text)
    THEN acc
    ELSE ParseLanguages(acc, item.path, item.text[1], LANGUAGE_DEPENDENCY_FILES)

\* d[lang].update(deps) for every lang of `more`, creating d[lang] when missing
RECURSIVE MergeLangs(_, _, _)
MergeLangs(main, more, langs) ==
  IF langs = {} THEN main
  ELSE LET lang == CHOOSE l \in langs : TRUE
       IN MergeLangs(DictUpdate(main, lang, more[lang]), more, langs \ {lang})

Merge(main, more) == MergeLangs(main, more, DOMAIN more)

\* the loop over items[lo..hi].  The body only ever adds names to the sets of
\* the dict, so the files' contributions are independent of their order and the
\* range is evaluated by halves.
RECURSIVE ParseFiles(_, _, _)
ParseFiles(items, lo, hi) ==
  IF lo > hi THEN [deps |-> EmptyDict, calls |-> {}]
  ELSE IF lo = hi THEN ParseFile([deps |-> EmptyDict, calls |-> {}], items[lo])
  ELSE LET mid == (lo + hi) \div 2
           left == ParseFiles(items, lo, mid)
           right == ParseFiles(items, mid + 1, hi)
       IN [deps |-> Merge(left.deps, right.deps), calls |-> left.calls \cup right.calls]

parse_files_for_dependencies(file_contents) ==
  ParseFiles(file_contents, 1, Len(file_contents))

----------------------------------------------------------------------------
(* parse_dependencies_full_graphql *)

\* mutant: floor division
floor(a, b) == a \div b

\* ceil(a / b) for a >= 0, b > 0
ceil(a, b) == IF a % b = 0 THEN a \div b ELSE (a \div b) + 1

\* the Python slice paths[lo : hi] of a list, lo and hi 0-based
Slice(paths, lo, hi) == SubSeq(paths, lo + 1, Min(hi, Len(paths)))

\* batch_paths = candidate_paths[start_index : start_index + BATCH_SIZE]
BatchPaths(paths, start) == Slice(paths, start, start + BATCH_SIZE)

\* steps 1 to 3 after the listing returned: the two early returns, the filter
\* and the set-up of the batch loop
FilterStep ==
  /\ pc = "filter"
  /\ IF all_file_paths = <<>>
       THEN /\ returned' = Some(EmptyDict)
            /\ pc' = "done"
            /\ UNCHANGED <<candidate_paths, num_batches, start_index, batch_i,
                           user_language_dependencies>>
       ELSE LET matching == filter_paths_by_dependency_patterns(all_file_paths)
            IN /\ candidate_paths' = matching
               /\ IF matching = <<>>
                    THEN /\ returned' = Some(EmptyDict)
                         /\ pc' = "done"
                         /\ UNCHANGED <<num_batches, start_index, batch_i,
                                        user_language_dependencies>>
                    ELSE /\ user_language_dependencies' = EmptyDict
                         /\ num_batches' = ceil(Len(matching), BATCH_SIZE)
                         /\ start_index' = 0
                         /\ batch_i' = 0
                         /\ pc' = "fetching"
                         /\ UNCHANGED returned
  /\ UNCHANGED <<tree, all_file_paths, after_cursor, raised, listRequests,
                 listResponses, fetchCalls, fetchResults, parserCalls>>

\* mutant: user_language_dependencies[lang] = deps, the batch replaces the set
AccumulateOverwrite(main, batch_deps) == batch_deps @@ main

\* for lang, deps in batch_deps.items(): merge into the main dictionary
Accumulate(main, batch_deps) == Merge(main, batch_deps)

\* mutant: a failed batch is skipped and the loop goes on
FetchFailedSkip ==
  /\ pc' = "fetching"
  /\ UNCHANGED <<user_language_dependencies, returned, raised, fetchResults, parserCalls>>

\* what a failed content request does to the pipeline: the exception of
\* fetch_raw_texts_graphql (the one it raises on a status other than 200, or the
\* AttributeError on a null "project") is not caught, the call ends without a
\* value
FetchFailed ==
  /\ pc' = "error"
  /\ raised' = "fetch"
  /\ UNCHANGED <<user_language_dependencies, returned, fetchResults, parserCalls>>

\* one iteration of the batch loop: slice, fetch, parse, merge
FetchBatch ==
  /\ pc = "fetching"
  /\ batch_i < num_batches
  /\ LET batch_paths == BatchPaths(candidate_paths, start_index)
     IN /\ start_index' = start_index + BATCH_SIZE
        /\ batch_i' = batch_i + 1
        /\ fetchCalls' = Append(fetchCalls, batch_paths)
        /\ \E resp \in ContentResponses(batch_paths) :
             IF resp.status # 200 \/ resp.projectNull
               THEN FetchFailed
               ELSE LET path_to_text == BlobsToDict(resp.nodes)
                        parsed == parse_files_for_dependencies(path_to_text)
                    IN /\ fetchResults' = Append(fetchResults, path_to_text)
                       /\ parserCalls' = parserCalls \cup parsed.calls
                       /\ user_language_dependencies' =
                            Accumulate(user_language_dependencies, parsed.deps)
                       /\ pc' = "fetching"
                       /\ UNCHANGED <<returned, raised>>
  /\ UNCHANGED <<tree, all_file_paths, after_cursor, candidate_paths, num_batches,
                 listRequests, listResponses>>

\* the loop is over: return user_language_dependencies
Return ==
  /\ pc = "fetching"
  /\ batch_i = num_batches
  /\ returned' = Some(user_language_dependencies)
  /\ pc' = "done"
  /\ UNCHANGED <<tree, all_file_paths, after_cursor, candidate_paths, num_batches,
                 start_index, batch_i, user_language_dependencies, raised,
                 listRequests, listResponses, fetchCalls, fetchResults, parserCalls>>

----------------------------------------------------------------------------

Init ==
  /\ \E n \in TreeSizes, layout \in Layouts : tree = Tree(n, layout)
  /\ pc = "listing"
  /\ all_file_paths = <<>>
  /\ after_cursor = None
  /\ candidate_paths = <<>>
  /\ num_batches = 0
  /\ start_index = 0
  /\ batch_i = 0
  /\ user_language_dependencies = EmptyDict
  /\ returned = None
  /\ raised = "none"
  /\ listRequests = <<>>
  /\ listResponses = <<>>
  /\ fetchCalls = <<>>
  /\ fetchResults = <<>>
  /\ parserCalls = {}

Next == ListPage \/ FilterStep \/ FetchBatch \/ Return

Spec == Init /\ [][Next]_vars

\* the listing loop blocks on each request and goes on when the response has
\* arrived: an iteration that can be taken is taken
FairSpec == Init /\ [][Next]_vars /\ WF_vars(ListPage)

----------------------------------------------------------------------------
(* Properties *)

\* the registry as a set of (language, pattern, parser) entries
Registry ==
  UNION {{[lang |-> LANGUAGE_DEPENDENCY_FILES[i].lang,
           pattern |-> LANGUAGE_DEPENDENCY_FILES[i].patterns[j].pattern,
           parser |-> LANGUAGE_DEPENDENCY_FILES[i].patterns[j].parser] :
            j \in 1..Len(LANGUAGE_DEPENDENCY_FILES[i].patterns)} :
         i \in 1..Len(LANGUAGE_DEPENDENCY_FILES)}

\* some pattern of the registry matches the path
MatchesSomePattern(path) == \E r \in Registry : fnmatch(path, r.pattern)

\* the set a {language: set} dict holds under a language, empty when it has no key
Under(d, lang) == IF lang \in DOMAIN d THEN d[lang] ELSE {}

\* the paths a listing page serves, in page order
PagePaths(resp) ==
  LET index == [i \in 1..Len(resp.nodes) |-> i]
      named == SelectSeq(index, LAMBDA i : resp.nodes[i].path \notin {None, Some(<<>>)})
  IN [k \in 1..Len(named) |-> resp.nodes[named[k]].path[1]]

\* C1: the content-fetch calls carry contiguous slices of the candidate list:
\* call i carries the paths 100(i-1)+1 .. min(100 i, M), between 1 and 100 of
\* them, no call lies beyond the list, and once the pipeline is done over M > 0
\* candidates there were exactly ceil(M/100) calls whose batches, concatenated
\* in call order, are the candidate list.
C1_BatchesAreContiguousSlices ==
  LET M == Len(candidate_paths)
      n == Len(fetchCalls)
  IN /\ \A i \in 1..n :
          /\ Len(fetchCalls[i]) \in 1..100
          /\ fetchCalls[i] = SubSeq(candidate_paths, 100 * (i - 1) + 1,
                                    IF 100 * i <= M THEN 100 * i ELSE M)
     /\ n > 0 => 100 * (n - 1) < M
     /\ (pc = "done" /\ M > 0) =>
          /\ 100 * n >= M
          /\ Concat(fetchCalls) = candidate_paths

C1_Witness ==
  /\ pc = "done"
  /\ Len(candidate_paths) = 201
  /\ Len(fetchCalls) = 3
  /\ Len(fetchCalls[3]) = 1

\* every listing response so far was a success carrying a page
OnlyPages ==
  \A i \in 1..Len(listResponses) :
    /\ listResponses[i].status = 200
    /\ ~listResponses[i].projectNull
    /\ listResponses[i].hasTree

\* the backend paged the tree truthfully: page i ends at min(100 i, N) and its
\* continuation flag says whether blobs remain
TruthfulPaging ==
  \A i \in 1..Len(listResponses) :
    /\ listResponses[i].endCursor =
         Some(IF 100 * i <= Len(tree) THEN 100 * i ELSE Len(tree))
    /\ listResponses[i].hasNextPage = (100 * i < Len(tree))

\* C2: when the listing returned and every response was a successful page, the
\* list returned is the concatenation of the pages' paths in arrival order, one
\* request was made per page, and the listing stopped at the first page whose
\* continuation flag was false.  Against truthful paging of N blobs that is
\* max(1, ceil(N/100)) requests and every path of the tree, in tree order.
C2_PagesConcatenatedInArrivalOrder ==
  LET n == Len(listResponses)
  IN (pc # "listing" /\ raised # "listing" /\ OnlyPages) =>
       /\ n >= 1
       /\ Len(listRequests) = n
       /\ all_file_paths = Concat([i \in 1..n |-> PagePaths(listResponses[i])])
       /\ \A i \in 1..(n - 1) : listResponses[i].hasNextPage
       /\ ~listResponses[n].hasNextPage
       /\ TruthfulPaging =>
            /\ 100 * (n - 1) < Len(tree) \/ n = 1
            /\ 100 * n >= Len(tree)
            /\ all_file_paths = PagePaths([nodes |-> tree])

C2_Witness ==
  /\ pc # "listing"
  /\ OnlyPages
  /\ TruthfulPaging
  /\ Len(tree) = 101
  /\ Len(listResponses) = 2
  /\ Len(listResponses[1].nodes) = 100
  /\ Len(listResponses[2].nodes) = 1
  /\ Len(all_file_paths) = 101

\* C3: a listing response with a non-success status is the last thing the run
\* does: it is the last response, no request follows it, the run is in error,
\* no content-fetch call was made and nothing was returned.
C3_ListingFailureAbortsTheRun ==
  /\ \A i \in 1..Len(listResponses) :
       listResponses[i].status # 200 =>
         /\ i = Len(listResponses)
         /\ Len(listRequests) = i
         /\ pc = "error"
         /\ raised = "listing"
         /\ fetchCalls = <<>>
         /\ returned = None
  /\ raised = "listing" =>
       /\ listResponses # <<>>
       /\ \/ listResponses[Len(listResponses)].status # 200
          \/ listResponses[Len(listResponses)].projectNull

C3_Witness ==
  /\ raised = "listing"
  /\ Len(listResponses) = 3
  /\ listResponses[3].status # 200
  /\ Len(all_file_paths) = 200
  /\ returned = None

\* C6: a run that listed no path, or only paths no pattern matches, is done
\* with the empty mapping and without a content-fetch call; a content-fetch
\* call implies that some listed path matches a pattern.
C6_NothingMatchedNothingFetched ==
  LET noMatch == \A i \in 1..Len(all_file_paths) : ~MatchesSomePattern(all_file_paths[i])
  IN /\ fetchCalls # <<>> => ~noMatch
     /\ (pc \in {"fetching", "done"} /\ noMatch) =>
          /\ pc = "done"
          /\ returned = Some(EmptyDict)
          /\ fetchCalls = <<>>

C6_Witness ==
  /\ pc = "done"
  /\ Len(all_file_paths) = 201
  /\ \A i \in 1..Len(all_file_paths) : ~MatchesSomePattern(all_file_paths[i])
  /\ returned = Some(EmptyDict)
  /\ fetchCalls = <<>>

\* C9: the filter returns the subsequence of the paths that some pattern
\* matches, each occurrence once and in input order, and filtering its own
\* output changes nothing.
C9_FilterIsAnIdempotentSubsequence ==
  (pc = "fetching" /\ batch_i = 0) \/ (pc = "done" /\ all_file_paths # <<>> /\ fetchCalls = <<>>) =>
     /\ candidate_paths = SelectSeq(all_file_paths, MatchesSomePattern)
     /\ filter_paths_by_dependency_patterns(candidate_paths) = candidate_paths

C9_Witness ==
  /\ pc = "fetching"
  /\ batch_i = 0
  /\ Len(candidate_paths) > 100
  /\ Len(candidate_paths) < Len(all_file_paths)
  /\ \E i \in 1..Len(candidate_paths) :
       Cardinality({r \in Registry : fnmatch(candidate_paths[i], r.pattern)}) > 1

\* a response after which the listing loop ends
Terminal(resp) == resp.status # 200 \/ ~resp.hasTree \/ ~resp.hasNextPage

C10_CursorChain ==
  LET n == Len(listResponses)
  IN /\ Len(listRequests) = n
     /\ \A i \in 1..n :
          listRequests[i] = IF i = 1 THEN None ELSE listResponses[i - 1].endCursor
     /\ \A i \in 1..(n - 1) : ~Terminal(listResponses[i])
     /\ pc # "listing" <=> (n >= 1 /\ Terminal(listResponses[n]))
     /\ pc = "listing" =>
          after_cursor = IF n = 0 THEN None ELSE listResponses[n].endCursor

\* C10: the first listing request carries no cursor and every later one the end
\* cursor of the response before it, each request is answered before the next
\* is sent, the loop has ended exactly when the last response is a non-success,
\* has no tree data or has a false continuation flag (so a true flag is followed
\* by another request whatever the number of pages and whatever the cursor),
\* and a listing whose backend eventually answers with such a response ends.
C10_ListingLoop ==
  /\ []C10_CursorChain
  /\ (pc = "listing") ~> (pc # "listing")

C10_Witness ==
  /\ pc # "listing"
  /\ Len(listRequests) = MaxPages
  /\ \A i \in 1..MaxPages : listRequests[i] = None
  /\ Len(tree) >= PAGE_SIZE
  /\ Len(all_file_paths) = MaxPages * PAGE_SIZE

\* the items of every dict a content fetch returned
FetchedItems == UNION {Range(fetchResults[k]) : k \in 1..Len(fetchResults)}

\* what the parser of a registry entry contributes for a text: the names it
\* returns, nothing when it raises
Contribution(r, text) ==
  LET out == parser_fn(r.parser, text)
  IN IF out.raised THEN {} ELSE out.deps

\* the record of the parser invocation of a registry entry on a fetched item
CallOf(item, r) ==
  LET out == parser_fn(r.parser, item.text[1])
  IN [file |-> item.path, lang |-> r.lang, pattern |-> r.pattern,
      raised |-> out.raised, returned |-> out.deps]

\* C4 as stated: after a failed content request the run still yields the
\* mapping accumulated from the batches fetched before it.
C4_FailedBatchKeepsEarlierResults ==
  (Len(fetchCalls) > Len(fetchResults) /\ fetchResults # <<>>) =>
     returned = Some(user_language_dependencies)

\* C4 as amended: a failed content request ends the run: it is the last
\* content-fetch call, the run is in error and returns nothing, whatever the
\* earlier batches had yielded.
C4_FailedBatchAbortsTheRun ==
  /\ Len(fetchCalls) <= Len(fetchResults) + 1
  /\ Len(fetchCalls) > Len(fetchResults) =>
       /\ pc = "error"
       /\ raised = "fetch"
       /\ returned = None
  /\ raised = "fetch" => Len(fetchCalls) = Len(fetchResults) + 1

C4_Witness ==
  /\ raised = "fetch"
  /\ Len(fetchCalls) = 3
  /\ Len(fetchResults) = 2
  /\ Under(user_language_dependencies, "python") # {}
  /\ returned = None

\* C5: a parser that raises ends nothing and costs nothing but its own
\* contribution: the run is in error only through a failed request, the
\* accumulator holds under every language exactly the names returned by the
\* invocations that did not raise, and in a finished run every fetched file
\* with content was handed to the parser of every pattern matching it, each
\* invocation recorded with what that parser answers on the content, and
\* the mapping returned has only registry languages and non-empty sets.
C5_ParserFailureIsIsolated ==
  /\ pc = "error" <=> raised # "none"
  /\ \A lang \in Languages :
       Under(user_language_dependencies, lang) =
         UNION {c.returned : c \in {d \in parserCalls : d.lang = lang /\ ~d.raised}}
  /\ \A c \in parserCalls : c.raised => c.returned = {}
  /\ pc = "done" =>
       /\ returned # None
       /\ DOMAIN returned[1] \subseteq Languages
       /\ \A lang \in DOMAIN returned[1] : returned[1][lang] # {}
       /\ fetchCalls # <<>> => returned[1] = user_language_dependencies
       /\ \A item \in FetchedItems :
            Truthy(item.text) =>
              \A r \in Registry :
                fnmatch(item.path, r.pattern) => CallOf(item, r) \in parserCalls

C5_Witness ==
  /\ pc = "done"
  /\ Len(fetchResults) = 3
  /\ \E k \in 1..Len(fetchResults) :
       \E i, j \in 1..Len(fetchResults[k]) :
         /\ \E c \in parserCalls : c.file = fetchResults[k][i].path /\ c.raised
         /\ \E c \in parserCalls :
              /\ c.file = fetchResults[k][j].path
              /\ ~c.raised
              /\ c.returned # {}
              /\ c.returned \subseteq Under(returned[1], c.lang)

\* C7: in a run that finished, the mapping returned holds under every language
\* the union of what the parsers of that language's matching patterns
\* contribute for every fetched file with content; no file without content was
\* handed to a parser, and every name returned comes from a parser invocation
\* of its language.
C7_ResultIsUnionOfParserResults ==
  pc = "done" =>
    LET result == returned[1]
        present == {item \in FetchedItems : Truthy(item.text)}
        presentPaths == {item.path : item \in present}
    IN /\ \A lang \in Languages :
            Under(result, lang) =
              UNION {UNION {Contribution(r, item.text[1]) :
                              r \in {q \in Registry :
                                       q.lang = lang /\ fnmatch(item.path, q.pattern)}} :
                     item \in present}
       /\ DOMAIN result \subseteq Languages
       /\ \A c \in parserCalls : c.file \in presentPaths
       /\ \A lang \in DOMAIN result :
            \A name \in result[lang] :
              \E c \in parserCalls : c.lang = lang /\ ~c.raised /\ name \in c.returned

C7_Witness ==
  /\ pc = "done"
  /\ Len(fetchResults) >= 2
  /\ \E item \in FetchedItems : item.text = None
  /\ \E item \in FetchedItems : item.text = Some(<<>>)
  /\ \E c \in parserCalls : c.raised
  /\ DOMAIN returned[1] = {"python", "javascript", "ruby"}
  /\ {"lib0", "lib1"} \subseteq returned[1]["python"]

\* the registry entries whose pattern matches a path
MatchingEntries(path) == {r \in Registry : fnmatch(path, r.pattern)}

\* C8: in a run that finished, a fetched file with content whose path matches
\* patterns of two different languages was handed to the parser of every
\* matching pattern, and the result holds under each of these languages what
\* its parser contributes for the file.
C8_BothLanguagesReceiveTheFile ==
  pc = "done" =>
    \A item \in FetchedItems :
      LET entries == MatchingEntries(item.path)
      IN (Truthy(item.text) /\ \E r1, r2 \in entries : r1.lang # r2.lang) =>
           \A r \in entries :
             /\ CallOf(item, r) \in parserCalls
             /\ Contribution(r, item.text[1]) \subseteq Under(returned[1], r.lang)

C8_Witness ==
  /\ pc = "done"
  /\ \E item \in FetchedItems :
       /\ item.text = Some(<<"left-pad", "rake", "lib2">>)
       /\ {r.lang : r \in MatchingEntries(item.path)} = {"javascript", "ruby"}
       /\ "left-pad" \in returned[1]["javascript"]
       /\ {"rake", "lib2"} \subseteq returned[1]["ruby"]
       /\ "rake" \notin returned[1]["javascript"]

====
